---- MODULE Spec2Model ----
(***************************************************************************)
(* Bleichenbacher's PKCS#1 v1.5 padding-oracle attack, set6/ch48.py.       *)
(*                                                                         *)
(* The module holds four state machines over one set of variables:         *)
(*   Spec       Attack (lines 96-137), one step per oracle query, per     *)
(*              loop-head branch and per narrowing step;                   *)
(*   SpecOracle ParityOracle.IsValid applied to every ciphertext;          *)
(*   SpecNarrow ComputeNextIntervals applied to bounded inputs;            *)
(*   SpecPkcs   PKCS1_ENCODE / PKCS1_DECODE applied to bounded inputs.     *)
(*                                                                         *)
(* The key of the source has a 96-byte modulus (KEY_BYTESIZE, line 15),    *)
(* whose integers do not fit TLC's 32-bit integers.  The attack           *)
(* and the oracle are therefore run on RSA instances (e, d, n, k) with a   *)
(* 3-byte modulus; KEY_BYTESIZE is the k of the instance under test, and   *)
(* B = 2^(8*(k-2)) as in the source.  The PKCS#1 functions, which handle   *)
(* byte strings only, are run with the source's k = 96.                    *)
(***************************************************************************)
EXTENDS Integers, Sequences, FiniteSets, TLC

VARIABLES
    inst,       \* the RSA instance <<e, d, n, k>> (pubKey, privKey, KEY_BYTESIZE)
    m,          \* the true plaintext integer (known to the oracle's side only)
    ciphernum,  \* Attack's argument c0 = m^e mod n
    pc,         \* position in Attack: "base", "loop", "fromR", "narrow", "done"
    caller,     \* call site of the running FindConformingBaseStep
    i,          \* iteration index of Attack
    Mi,         \* the interval list of Attack
    s1,         \* Attack's s1
    si,         \* Attack's si
    sNext,      \* Attack's sNext
    ri,         \* Attack's ri
    s,          \* the loop variable of the running search (s / si of lines 53, 73)
    ret,        \* the value Attack returned
    stage,      \* position of the pure-function machines
    arg,        \* their input
    mid,        \* their intermediate value
    res         \* their result

vars == <<inst, m, ciphernum, pc, caller, i, Mi, s1, si, sNext, ri, s, ret,
          stage, arg, mid, res>>

attackVars == <<m, ciphernum, pc, caller, i, Mi, s1, si, sNext, ri, s, ret>>
pureVars == <<stage, arg, mid, res>>

(***************************************************************************)
(* Bounds and instances.                                                   *)
(***************************************************************************)

\* RSA instances <<e, d, n, k>> with a 3-byte modulus:
\* 65621 = 211 * 311 and 66043 = 211 * 313, e * d = 1 mod lcm(p-1, q-1).
Instances == { <<17, 383, 65621, 3>>, <<67, 163, 66043, 3>> }

\* The iteration index is only ever compared with 1 (line 115) and printed
\* (line 121); it is kept exactly up to MaxIter and saturates there, which
\* keeps the state space of a run that never returns finite.
MaxIter == 4

\* Python's None (lines 78, 113, 130); every multiplier is positive.
None == 0 - 1

(***************************************************************************)
(* Integer helpers.                                                        *)
(***************************************************************************)

Max(x, y) == IF x >= y THEN x ELSE y

Min(x, y) == IF x <= y THEN x ELSE y

\* (x * y) % n for 0 <= x, y < 2^17, with every intermediate value below
\* 2^31: Python's integers are unbounded, TLC's are not.
MulMod(x, y, n) == ((((x * (y \div 256)) % n) * 256) + x * (y % 256)) % n

\* One square-and-multiply step: half is base^(exp \div 2) mod n.
SquareAndMultiply[half \in Nat, base \in Nat, bit \in Nat, n \in Nat] ==
    IF bit = 1 THEN MulMod(MulMod(half, half, n), base, n)
    ELSE MulMod(half, half, n)

ModExpRec[base \in Nat, exp \in Nat, n \in Nat] ==
    IF exp = 0 THEN 1 % n
    ELSE SquareAndMultiply[ModExpRec[base, exp \div 2, n], base, exp % 2, n]

\* pow(base, exp, n)
ModExp(base, exp, n) == ModExpRec[base % n, exp, n]

\* math.ceil(n / (3 * B)): the float quotient of the source is exact for the
\* moduli of Instances, where it is the integer ceiling.
MathCeilDiv(x, y) == (x + y - 1) \div y

(***************************************************************************)
(* The key in use.                                                         *)
(***************************************************************************)

pubE == inst[1]
privD == inst[2]
modN == inst[3]
KEY_BYTESIZE == inst[4]

B == 2 ^ (8 * (KEY_BYTESIZE - 2))

(***************************************************************************)
(* External collaborators (ch42, rsa): modelled from their interface.      *)
(***************************************************************************)

\* rsa.Decrypt(key, c) = c^d mod n
Decrypt(c) == ModExp(c, privD, modN)

\* rsa.Encrypt(key, m) = m^e mod n
Encrypt(p) == ModExp(p, pubE, modN)

\* ch42.IntegerToBytes: big-endian, no leading zero byte.
IntegerToBytes[p \in Nat] ==
    IF p = 0 THEN << >>
    ELSE Append(IntegerToBytes[p \div 256], p % 256)

(***************************************************************************)
(* ParityOracle.IsValid, lines 21-30.                                      *)
(***************************************************************************)

Rep(byte, count) == [j \in 1..count |-> byte]

\* a variant that pads to one byte less than the modulus length
PadFront_Short(plainbytes) ==
    Rep(0, (KEY_BYTESIZE - 1) - Len(plainbytes)) \o plainbytes

\* lines 27-28: pad in front with zero bytes up to KEY_BYTESIZE bytes
PadFront(plainbytes) ==
    Rep(0, KEY_BYTESIZE - Len(plainbytes)) \o plainbytes

IsValid(c) ==
    LET plainnum == Decrypt(c)
        plainbytes == PadFront(IntegerToBytes[plainnum])
    IN plainbytes[1] = 0 /\ plainbytes[2] = 2

\* lines 56-57 and 74-75: the oracle's answer for multiplier x
Query(x) == IsValid(MulMod(ciphernum, ModExp(x, pubE, modN), modN))

(***************************************************************************)
(* ComputeNextIntervals, lines 81-94.                                      *)
(***************************************************************************)

InList(x, list) == \E j \in 1..Len(list) : list[j] = x

\* a variant of the inner loop that appends without the membership test
RECURSIVE RefineOverR_NoDedup(_, _, _, _, _, _)
RefineOverR_NoDedup(Mnext, ab, r, rEnd, si_, n) ==
    IF r >= rEnd THEN Mnext
    ELSE LET newA == Max(ab[1], (2 * B + r * n) \div si_ + 1)
             newB == Min(ab[2], (3 * B - 1 + r * n) \div si_)
             newInterval == <<newA, newB>>
         IN RefineOverR_NoDedup(
                IF newB >= newA THEN Append(Mnext, newInterval) ELSE Mnext,
                ab, r + 1, rEnd, si_, n)

\* a variant of the inner loop that does not clamp the pair to the interval
RECURSIVE RefineOverR_NoClamp(_, _, _, _, _, _)
RefineOverR_NoClamp(Mnext, ab, r, rEnd, si_, n) ==
    IF r >= rEnd THEN Mnext
    ELSE LET newA == (2 * B + r * n) \div si_ + 1
             newB == (3 * B - 1 + r * n) \div si_
             newInterval == <<newA, newB>>
         IN RefineOverR_NoClamp(
                IF newB >= newA /\ ~InList(newInterval, Mnext)
                THEN Append(Mnext, newInterval) ELSE Mnext,
                ab, r + 1, rEnd, si_, n)

\* a variant of the inner loop whose upper end is taken one r too far
RECURSIVE RefineOverR_WideUpper(_, _, _, _, _, _)
RefineOverR_WideUpper(Mnext, ab, r, rEnd, si_, n) ==
    IF r >= rEnd THEN Mnext
    ELSE LET newA == Max(ab[1], (2 * B + r * n) \div si_ + 1)
             newB == Min(ab[2], (3 * B - 1 + (r + 1) * n) \div si_)
             newInterval == <<newA, newB>>
         IN RefineOverR_WideUpper(
                IF newB >= newA /\ ~InList(newInterval, Mnext)
                THEN Append(Mnext, newInterval) ELSE Mnext,
                ab, r + 1, rEnd, si_, n)

\* lines 86-92: the loop over r in range(r, rEnd) for one interval ab
RECURSIVE RefineOverR(_, _, _, _, _, _)
RefineOverR(Mnext, ab, r, rEnd, si_, n) ==
    IF r >= rEnd THEN Mnext
    ELSE LET newA == Max(ab[1], (2 * B + r * n) \div si_ + 1)
             newB == Min(ab[2], (3 * B - 1 + r * n) \div si_)
             newInterval == <<newA, newB>>
         IN RefineOverR(
                IF newB >= newA /\ ~InList(newInterval, Mnext)
                THEN Append(Mnext, newInterval) ELSE Mnext,
                ab, r + 1, rEnd, si_, n)

\* line 85: the loop over the intervals of Mi, from the j-th on
RECURSIVE RefineOverMi(_, _, _, _, _)
RefineOverMi(Mnext, Mi_, j, si_, n) ==
    IF j > Len(Mi_) THEN Mnext
    ELSE LET a == Mi_[j][1]
             b == Mi_[j][2]
         IN RefineOverMi(
                RefineOverR(Mnext, Mi_[j],
                            (a * si_ - 3 * B + 1) \div n,
                            ((b * si_ - 2 * B) \div n) + 1, si_, n),
                Mi_, j + 1, si_, n)

ComputeNextIntervals(Mi_, si_, n) == RefineOverMi(<< >>, Mi_, 1, si_, n)

(***************************************************************************)
(* FindConformingFromR, lines 63-78: the bounds of its range.              *)
(***************************************************************************)

\* a variant whose first multiplier is a floor, not a ceiling
FromRStart_Floor(r, interval) ==
    (2 * B + r * modN) \div interval[2]

FromRStart(r, interval) ==
    (2 * B + r * modN + interval[2] - 1) \div interval[2]

\* a variant with one added to the numerator of the upper bound
FromREnd_Widened(r, interval) ==
    (3 * B - 1 + r * modN + 1) \div interval[1] + 1

\* exclusive end of range(...)
FromREnd(r, interval) ==
    (3 * B - 1 + r * modN) \div interval[1] + 1

(***************************************************************************)
(* Attack, lines 96-137.                                                   *)
(***************************************************************************)

PureIdle ==
    /\ stage = "attack"
    /\ arg = << >>
    /\ mid = << >>
    /\ res = << >>

\* lines 97-108, up to the call of FindConformingBaseStep(s1, ...)
Init ==
    /\ inst \in Instances
    /\ m \in (2 * B)..(3 * B - 1)
    /\ ciphernum = Encrypt(m)
    /\ i = 1
    /\ Mi = << <<2 * B, 3 * B - 1>> >>
    /\ s1 = MathCeilDiv(modN, 3 * B)
    /\ s = s1
    /\ pc = "base"
    /\ caller = "L108"
    /\ si = None
    /\ sNext = None
    /\ ri = None
    /\ ret = None
    /\ PureIdle

\* a variant that moves on by two after a rejection
FindConformingBaseStep_SkipOne ==
    /\ pc = "base"
    /\ ~Query(s)
    /\ s' = s + 2
    /\ UNCHANGED <<inst, m, ciphernum, pc, caller, i, Mi, s1, si, sNext, ri, ret>>
    /\ UNCHANGED pureVars

\* lines 55-59, the oracle rejects: s += 1
FindConformingBaseStep_Next ==
    /\ pc = "base"
    /\ ~Query(s)
    /\ s' = s + 1
    /\ UNCHANGED <<inst, m, ciphernum, pc, caller, i, Mi, s1, si, sNext, ri, ret>>
    /\ UNCHANGED pureVars

\* lines 57-58 returning to line 108, then line 110
FindConformingBaseStep_ReturnBoot ==
    /\ pc = "base"
    /\ caller = "L108"
    /\ Query(s)
    /\ s1' = s
    /\ sNext' = s
    /\ pc' = "loop"
    /\ UNCHANGED <<inst, m, ciphernum, caller, i, Mi, si, ri, s, ret>>
    /\ UNCHANGED pureVars

\* lines 57-58 returning to line 117 or line 134
FindConformingBaseStep_Return ==
    /\ pc = "base"
    /\ caller \in {"L117", "L134"}
    /\ Query(s)
    /\ sNext' = s
    /\ pc' = "narrow"
    /\ UNCHANGED <<inst, m, ciphernum, caller, i, Mi, s1, si, ri, s, ret>>
    /\ UNCHANGED pureVars

\* a variant whose first-iteration search starts above the floor
LoopFirst_SearchAbove ==
    /\ pc = "loop"
    /\ i = 1
    /\ si' = sNext
    /\ sNext' = None
    /\ s1' = MathCeilDiv(modN, 3 * B)
    /\ s' = sNext + 1
    /\ pc' = "base"
    /\ caller' = "L117"
    /\ UNCHANGED <<inst, m, ciphernum, i, Mi, ri, ret>>
    /\ UNCHANGED pureVars

\* lines 112-117: the first iteration
LoopFirst ==
    /\ pc = "loop"
    /\ i = 1
    /\ si' = sNext
    /\ sNext' = None
    /\ s1' = MathCeilDiv(modN, 3 * B)
    /\ s' = s1'
    /\ pc' = "base"
    /\ caller' = "L117"
    /\ UNCHANGED <<inst, m, ciphernum, i, Mi, ri, ret>>
    /\ UNCHANGED pureVars

\* a variant that returns the lower endpoint of any single interval
LoopConverged_NoEqualityTest ==
    /\ pc = "loop"
    /\ i # 1
    /\ Len(Mi) = 1
    /\ si' = sNext
    /\ sNext' = None
    /\ ret' = Mi[1][1]
    /\ pc' = "done"
    /\ UNCHANGED <<inst, m, ciphernum, caller, i, Mi, s1, ri, s>>
    /\ UNCHANGED pureVars

\* lines 112-113, 118-124: one interval with a == b, return a
LoopConverged ==
    /\ pc = "loop"
    /\ i # 1
    /\ Len(Mi) = 1
    /\ Mi[1][1] = Mi[1][2]
    /\ si' = sNext
    /\ sNext' = None
    /\ ret' = Mi[1][1]
    /\ pc' = "done"
    /\ UNCHANGED <<inst, m, ciphernum, caller, i, Mi, s1, ri, s>>
    /\ UNCHANGED pureVars

\* a variant that rounds the first r up
LoopSingle_CeilR ==
    /\ pc = "loop"
    /\ i # 1
    /\ Len(Mi) = 1
    /\ Mi[1][1] # Mi[1][2]
    /\ si' = sNext
    /\ sNext' = None
    /\ ri' = (2 * Mi[1][2] * sNext - 4 * B + modN - 1) \div modN
    /\ s' = FromRStart(ri', Mi[1])
    /\ pc' = "fromR"
    /\ UNCHANGED <<inst, m, ciphernum, caller, i, Mi, s1, ret>>
    /\ UNCHANGED pureVars

\* lines 112-113, 118-120, 125-129: one interval with a != b, first call of
\* FindConformingFromR
LoopSingle ==
    /\ pc = "loop"
    /\ i # 1
    /\ Len(Mi) = 1
    /\ Mi[1][1] # Mi[1][2]
    /\ si' = sNext
    /\ sNext' = None
    /\ ri' = (2 * Mi[1][2] * sNext - 4 * B) \div modN
    /\ s' = FromRStart(ri', Mi[1])
    /\ pc' = "fromR"
    /\ UNCHANGED <<inst, m, ciphernum, caller, i, Mi, s1, ret>>
    /\ UNCHANGED pureVars

\* lines 112-113, 133-134: len(Mi) != 1, linear search from s1 + 1
LoopMulti ==
    /\ pc = "loop"
    /\ i # 1
    /\ Len(Mi) # 1
    /\ si' = sNext
    /\ sNext' = None
    /\ s' = s1 + 1
    /\ pc' = "base"
    /\ caller' = "L134"
    /\ UNCHANGED <<inst, m, ciphernum, i, Mi, s1, ri, ret>>
    /\ UNCHANGED pureVars

\* lines 73-75, the oracle rejects: next si of the range
FindConformingFromR_Next ==
    /\ pc = "fromR"
    /\ s < FromREnd(ri, Mi[1])
    /\ ~Query(s)
    /\ s' = s + 1
    /\ UNCHANGED <<inst, m, ciphernum, pc, caller, i, Mi, s1, si, sNext, ri, ret>>
    /\ UNCHANGED pureVars

\* lines 75-76 returning to lines 129-131
FindConformingFromR_Return ==
    /\ pc = "fromR"
    /\ s < FromREnd(ri, Mi[1])
    /\ Query(s)
    /\ sNext' = s
    /\ pc' = "narrow"
    /\ UNCHANGED <<inst, m, ciphernum, caller, i, Mi, s1, si, ri, s, ret>>
    /\ UNCHANGED pureVars

\* line 78 returning None, lines 130-132: ri += 1 and the next call
FindConformingFromR_None ==
    /\ pc = "fromR"
    /\ s >= FromREnd(ri, Mi[1])
    /\ ri' = ri + 1
    /\ s' = FromRStart(ri', Mi[1])
    /\ UNCHANGED <<inst, m, ciphernum, pc, caller, i, Mi, s1, si, sNext, ret>>
    /\ UNCHANGED pureVars

\* lines 136-137
Narrow ==
    /\ pc = "narrow"
    /\ Mi' = ComputeNextIntervals(Mi, sNext, modN)
    /\ i' = IF i < MaxIter THEN i + 1 ELSE i
    /\ pc' = "loop"
    /\ UNCHANGED <<inst, m, ciphernum, caller, s1, si, sNext, ri, s, ret>>
    /\ UNCHANGED pureVars

Next ==
    \/ FindConformingBaseStep_Next
    \/ FindConformingBaseStep_ReturnBoot
    \/ FindConformingBaseStep_Return
    \/ LoopFirst
    \/ LoopConverged
    \/ LoopSingle
    \/ LoopMulti
    \/ FindConformingFromR_Next
    \/ FindConformingFromR_Return
    \/ FindConformingFromR_None
    \/ Narrow

Spec == Init /\ [][Next]_vars

\* Attack is one sequential computation: whenever a step is possible, it is
\* taken.
FairSpec == Spec /\ WF_vars(Next)

(***************************************************************************)
(* The pure functions, each applied to inputs drawn from bounded sets.     *)
(***************************************************************************)

AttackIdle ==
    /\ m = 0
    /\ ciphernum = 0
    /\ pc = "off"
    /\ caller = "none"
    /\ i = 0
    /\ Mi = << >>
    /\ s1 = None
    /\ si = None
    /\ sNext = None
    /\ ri = None
    /\ s = None
    /\ ret = None

\* ParityOracle.IsValid on every ciphertext integer of the instance
InitOracle ==
    /\ inst \in Instances
    /\ AttackIdle
    /\ stage = "ciphertext"
    /\ arg \in 0..(modN - 1)
    /\ mid = << >>
    /\ res = << >>

OracleAnswer ==
    /\ stage = "ciphertext"
    /\ res' = IsValid(arg)
    /\ stage' = "answered"
    /\ UNCHANGED <<inst, arg, mid>>
    /\ UNCHANGED attackVars

NextOracle == OracleAnswer

SpecOracle == InitOracle /\ [][NextOracle]_vars

\* largest multiplier given to ComputeNextIntervals
MaxS == 300

\* longest interval list given to ComputeNextIntervals
MaxIntervals == 2

EndPoints == {2 * B, 2 * B + B \div 2, 3 * B - 1}

IntervalSamples == {ab \in EndPoints \X EndPoints : ab[1] <= ab[2]}

IntervalLists ==
    UNION {[1..len -> IntervalSamples] : len \in 0..MaxIntervals}

\* ComputeNextIntervals(Mi, si, n) on arg = <<Mi, si>> and the n of the instance
InitNarrow ==
    /\ inst \in Instances
    /\ AttackIdle
    /\ stage = "input"
    /\ arg \in IntervalLists \X (1..MaxS)
    /\ mid = << >>
    /\ res = << >>

ApplyNarrow ==
    /\ stage = "input"
    /\ res' = ComputeNextIntervals(arg[1], arg[2], modN)
    /\ stage' = "narrowed"
    /\ UNCHANGED <<inst, arg, mid>>
    /\ UNCHANGED attackVars

NextNarrow == ApplyNarrow

SpecNarrow == InitNarrow /\ [][NextNarrow]_vars

(***************************************************************************)
(* PKCS1_ENCODE and PKCS1_DECODE, lines 32-48, on byte strings.            *)
(***************************************************************************)

\* a variant whose padding bytes are 0x00
PKCS1_ENCODE_ZeroPadding(M) ==
    LET padding == Rep(0, KEY_BYTESIZE - Len(M) - 3)
    IN <<0, 2>> \o padding \o <<0>> \o M

\* lines 32-36; a negative repeat count gives the empty string, as in Python
PKCS1_ENCODE(M) ==
    LET padding == Rep(255, KEY_BYTESIZE - Len(M) - 3)
    IN <<0, 2>> \o padding \o <<0>> \o M

\* the exception of lines 40 and 48
DecodeError == [ok |-> FALSE, val |-> << >>]

\* M[from:] for a 0-based index from
Slice(M, from) == SubSeq(M, from + 1, Len(M))

\* a variant that takes a 0x00 at index 2 as the separator
RECURSIVE DecodeScan_FromTwo(_, _)
DecodeScan_FromTwo(M, idx) ==
    IF idx >= Len(M) THEN DecodeError
    ELSE IF M[idx + 1] = 0 /\ idx >= 2
         THEN [ok |-> TRUE, val |-> Slice(M, idx + 1)]
         ELSE DecodeScan_FromTwo(M, idx + 1)

\* lines 44-48: the loop over the 0-based indexes idx .. len(M)-1
RECURSIVE DecodeScan(_, _)
DecodeScan(M, idx) ==
    IF idx >= Len(M) THEN DecodeError
    ELSE IF M[idx + 1] = 0 /\ idx > 2
         THEN [ok |-> TRUE, val |-> Slice(M, idx + 1)]
         ELSE DecodeScan(M, idx + 1)

\* lines 38-48 (sequences are 1-based: M[0] of the source is M[1] here)
PKCS1_DECODE(M) ==
    IF M[1] # 0 \/ M[2] # 2 THEN DecodeError
    ELSE DecodeScan(M, 2)

\* the key size of the source (line 15); e, d and n play no part here
PkcsInstance == <<65537, 0, 0, 96>>

\* byte values the inputs are built from
ByteSamples == {0, 2, 255}

\* longest message prefix
MaxMsgLen == 3

\* longest prefix of an encoded message
MaxHeadLen == 4

SeqsUpTo(S, lo, hi) == UNION {[1..len -> S] : len \in lo..hi}

\* messages of at most MaxMsgLen bytes, and the same extended with one byte
\* value up to the longest message length k - 11
Messages ==
    LET short == SeqsUpTo(ByteSamples, 0, MaxMsgLen)
    IN short \cup
       { h \o Rep(f, (KEY_BYTESIZE - 11) - Len(h)) :
             h \in short, f \in ByteSamples }

\* k-byte strings: a prefix of 2..MaxHeadLen bytes extended with one byte value
EncodedInputs ==
    { h \o Rep(f, KEY_BYTESIZE - Len(h)) :
          h \in SeqsUpTo(ByteSamples, 2, MaxHeadLen), f \in ByteSamples }

InitPkcs ==
    /\ inst = PkcsInstance
    /\ AttackIdle
    /\ res = << >>
    /\ \/ /\ stage = "message"
          /\ arg \in Messages
          /\ mid = << >>
       \/ /\ stage = "em"
          /\ arg = << >>
          /\ mid \in EncodedInputs

Encode ==
    /\ stage = "message"
    /\ mid' = PKCS1_ENCODE(arg)
    /\ stage' = "encoded"
    /\ UNCHANGED <<inst, arg, res>>
    /\ UNCHANGED attackVars

Decode ==
    /\ stage \in {"encoded", "em"}
    /\ res' = PKCS1_DECODE(mid)
    /\ stage' = IF stage = "encoded" THEN "decoded" ELSE "em_decoded"
    /\ UNCHANGED <<inst, arg, mid>>
    /\ UNCHANGED attackVars

NextPkcs ==
    \/ Encode
    \/ Decode

SpecPkcs == InitPkcs /\ [][NextPkcs]_vars

(***************************************************************************)
(* Claims about Attack (checked under Spec and FairSpec).                  *)
(***************************************************************************)

InSomeInterval(x, list) ==
    \E j \in 1..Len(list) : list[j][1] <= x /\ x <= list[j][2]

\* C1: soundness of narrowing: in every state of Attack the true plaintext m
\* lies in at least one interval of the current list Mi.
C1_SoundnessOfNarrowing == InSomeInterval(m, Mi)

\* C2: whenever Attack returns, the value returned is the true plaintext m.
C2_ReturnsPlaintext == (pc = "done") => (ret = m)

\* C3: Attack returns only with i > 1 and with Mi holding exactly one
\* interval (a, b) with a == b, and it returns that a.
C3_ReturnsOnlyOnPointInterval ==
    (pc = "done") =>
        /\ i > 1
        /\ Len(Mi) = 1
        /\ Mi[1][1] = Mi[1][2]
        /\ ret = Mi[1][1]

\* Attack has returned from a single interval.
C3_Witness == pc = "done" /\ i > 1 /\ Len(Mi) = 1 /\ ret = Mi[1][2]

\* C4: termination: every run of Attack eventually returns.
C4_Termination == <>(pc = "done")

(***************************************************************************)
(* Claims about ParityOracle.IsValid (checked under SpecOracle).           *)
(***************************************************************************)

\* p written big-endian on exactly k bytes
FixedWidthBytes(p, k) == [j \in 1..k |-> (p \div (256 ^ (k - j))) % 256]

\* C5: IsValid(c) is true if and only if p = c^d mod n, written big-endian on
\* exactly k bytes, has byte 0 equal to 0x00 and byte 1 equal to 0x02, that
\* is if and only if 2B <= p <= 3B-1.
C5_IsValidIffConforming ==
    (stage = "answered") =>
        LET p == Decrypt(arg)
            bytes == FixedWidthBytes(p, KEY_BYTESIZE)
        IN /\ res <=> (bytes[1] = 0 /\ bytes[2] = 2)
           /\ res <=> (2 * B <= p /\ p <= 3 * B - 1)

\* The oracle accepted a plaintext whose unpadded form is one byte short.
C5_Witness ==
    /\ stage = "answered"
    /\ res = TRUE
    /\ Len(IntegerToBytes[Decrypt(arg)]) = KEY_BYTESIZE - 1

(***************************************************************************)
(* Claims about ComputeNextIntervals (checked under SpecNarrow).           *)
(***************************************************************************)

SeqToSet(list) == {list[j] : j \in 1..Len(list)}

\* ceil_div of the specification
CeilDiv(x, y) == (x + y - 1) \div y

\* the narrowing step as the specification states it
RefNextIntervals(Mi_, s_, n) ==
    UNION { { <<Max(Mi_[j][1], CeilDiv(2 * B + r * n, s_)),
                Min(Mi_[j][2], (3 * B - 1 + r * n) \div s_)>> :
              r \in { q \in CeilDiv(Mi_[j][1] * s_ - 3 * B + 1, n)
                            .. ((Mi_[j][2] * s_ - 2 * B) \div n) :
                      Min(Mi_[j][2], (3 * B - 1 + q * n) \div s_)
                          >= Max(Mi_[j][1], CeilDiv(2 * B + q * n, s_)) } } :
            j \in 1..Len(Mi_) }

\* C6: ComputeNextIntervals(Mi, s, n) returns exactly the pairs
\* (newA, newB) with newB >= newA of the specification's formulas
\* (ceil_div for the lower end of the r range and for newA).
C6_EqualsReference ==
    (stage = "narrowed") =>
        SeqToSet(res) = RefNextIntervals(arg[1], arg[2], modN)

\* C7: one narrowing step drops no consistent candidate: every x of some
\* interval of Mi with 2B <= (x*s mod n) <= 3B-1 lies in some interval of
\* ComputeNextIntervals(Mi, s, n).
C7_DropsNoCandidate ==
    (stage = "narrowed") =>
        \A x \in (2 * B)..(3 * B - 1) :
            ( /\ InSomeInterval(x, arg[1])
              /\ 2 * B <= (x * arg[2]) % modN
              /\ (x * arg[2]) % modN <= 3 * B - 1 )
            => InSomeInterval(x, res)

\* C8: the output of ComputeNextIntervals never holds the same pair twice
\* and holds only pairs with newB >= newA.
C8_NoDuplicateNoEmptyPair ==
    (stage = "narrowed") =>
        /\ \A j, k \in 1..Len(res) : (res[j] = res[k]) => (j = k)
        /\ \A j \in 1..Len(res) : res[j][2] >= res[j][1]

\* A repeated input interval was narrowed to a non-empty output.
C8_Witness ==
    /\ stage = "narrowed"
    /\ Len(arg[1]) = 2
    /\ arg[1][1] = arg[1][2]
    /\ Len(res) >= 1

(***************************************************************************)
(* Claims about PKCS1_ENCODE / PKCS1_DECODE (checked under SpecPkcs).      *)
(***************************************************************************)

\* C9: round trip: for every message M with len(M) <= k-11, zero bytes and
\* the empty message included, PKCS1_DECODE(PKCS1_ENCODE(M)) == M.
C9_RoundTrip ==
    (stage = "decoded" /\ Len(arg) <= KEY_BYTESIZE - 11) =>
        /\ res.ok
        /\ res.val = arg

\* A message that starts with 0x00 went through encode and decode.
C9_Witness ==
    /\ stage = "decoded"
    /\ Len(arg) >= 2
    /\ Len(arg) <= KEY_BYTESIZE - 11
    /\ arg[1] = 0
    /\ Len(mid) = KEY_BYTESIZE

\* 1-based positions of the 0x00 bytes of EM at a 0-based index above 2
Separators(EM) == {j \in 4..Len(EM) : EM[j] = 0}

\* C10: PKCS1_DECODE on a k-byte string EM fails if and only if EM[0] != 0x00
\* or EM[1] != 0x02 or EM has no 0x00 at an index greater than 2; otherwise
\* it returns the bytes after the first 0x00 at an index greater than 2.
C10_DecodeFailsIffMalformed ==
    (stage \in {"decoded", "em_decoded"} /\ Len(mid) = KEY_BYTESIZE) =>
        /\ (~res.ok) <=> (mid[1] # 0 \/ mid[2] # 2 \/ Separators(mid) = {})
        /\ res.ok =>
              \E j \in Separators(mid) :
                  /\ \A q \in Separators(mid) : j <= q
                  /\ res.val = [t \in 1..(Len(mid) - j) |-> mid[j + t]]

\* A string with 0x00 at index 2 was decoded past a later separator.
C10_Witness ==
    /\ stage = "em_decoded"
    /\ Len(mid) = KEY_BYTESIZE
    /\ mid[3] = 0
    /\ res.ok
    /\ Len(res.val) < KEY_BYTESIZE - 4

(***************************************************************************)
(* Further claims about Attack (checked under Spec and FairSpec).          *)
(***************************************************************************)

\* C11: whenever an iteration i > 1 starts with more than one interval in
\* Mi, the linear search starts at the previously found multiplier + 1 (at
\* the head of the loop sNext holds the multiplier of the preceding
\* narrowing step).
C11_MultiStartsAbovePrevious ==
    [][ (pc = "loop" /\ i > 1 /\ Len(Mi) > 1)
            => (pc' = "base" /\ s' = sNext + 1) ]_vars

\* the initial interval list M_1
M1 == << <<2 * B, 3 * B - 1>> >>

Contained(ab, list) ==
    \E k \in 1..Len(list) : list[k][1] <= ab[1] /\ ab[2] <= list[k][2]

\* C12: every interval (a, b) of Mi satisfies 2B <= a <= b <= 3B-1 in every
\* state of Attack, and every interval produced by a narrowing step is
\* contained in one of the intervals it was computed from.
C12_IntervalsInsideAndShrinking ==
    /\ [](\A j \in 1..Len(Mi) :
             /\ 2 * B <= Mi[j][1]
             /\ Mi[j][1] <= Mi[j][2]
             /\ Mi[j][2] <= 3 * B - 1)
    /\ [][\A j \in 1..Len(Mi') : Contained(Mi'[j], Mi)]_vars

\* A narrowing step has produced several intervals, none the initial one.
C12_Witness ==
    /\ pc = "loop"
    /\ i > 1
    /\ Len(Mi) >= 2
    /\ Mi[1] # M1[1]

\* the multiplier range of FindConformingFromR(r, (a, b)) as the
\* specification states it: lowest and highest multiplier
RangeLow(r, interval) == CeilDiv(2 * B + r * modN, interval[2])

RangeHigh(r, interval) == (3 * B - 1 + r * modN) \div interval[1]

NoneAccepted(lo, hi) == \A t \in lo..hi : ~Query(t)

\* one step of a running FindConformingFromR(ri, Mi[0])
C13_Step ==
    (pc = "fromR") =>
        LET lo == RangeLow(ri, Mi[1])
            hi == RangeHigh(ri, Mi[1])
        IN /\ s >= lo
           \* a rejected multiplier lies in the range and s + 1 is next
           /\ (pc' = "fromR" /\ ri' = ri) =>
                  (s <= hi /\ ~Query(s) /\ s' = s + 1)
           \* the multiplier returned is the least accepted one of the range
           /\ (pc' = "narrow") =>
                  (s <= hi /\ Query(s) /\ sNext' = s /\ NoneAccepted(lo, s - 1))
           \* None is returned only if no multiplier of the range is accepted
           /\ (ri' # ri) => NoneAccepted(lo, hi)
           \* and it is returned once the range is used up
           /\ (s > hi) => (ri' # ri)

FirstR(interval, sPrev) == (2 * interval[2] * sPrev - 4 * B) \div modN

C15_Step ==
    \* the regime is entered with r = floor((2*b*s_prev - 4B)/n)
    /\ (pc = "loop" /\ i > 1 /\ Len(Mi) = 1 /\ Mi[1][1] < Mi[1][2]) =>
           (pc' = "fromR" /\ ri' = FirstR(Mi[1], sNext))
    /\ (pc' = "fromR" /\ pc = "loop") =>
           (i > 1 /\ Len(Mi) = 1 /\ Mi[1][1] < Mi[1][2])
    \* r goes up by one, and only past a range without accepted multiplier
    /\ (pc = "fromR" /\ ri' # ri) =>
           /\ ri' = ri + 1
           /\ pc' = "fromR"
           /\ NoneAccepted(RangeLow(ri, Mi[1]), RangeHigh(ri, Mi[1]))
    \* the multiplier found goes to the narrowing step
    /\ (pc = "fromR" /\ pc' = "narrow") => (sNext' = s /\ Query(s))
    /\ (pc = "narrow") => (Mi' = ComputeNextIntervals(Mi, sNext, modN))

\* C15: in the single-interval regime the values of r tried are
\* floor((2*b*s_prev - 4B)/n), then + 1, + 2, ... with none skipped, and the
\* multiplier passed to narrowing is the one FindConformingFromR returns for
\* the first r whose range holds an accepted multiplier.
C15_SingleIntervalRSequence == [][C15_Step]_vars

\* A multiplier is about to be returned for an r above the first one.
C15_Witness ==
    /\ pc = "fromR"
    /\ ri > FirstR(Mi[1], si)
    /\ s <= RangeHigh(ri, Mi[1])
    /\ Query(s)

\* the argument of the running FindConformingBaseStep call: s1 at lines 108
\* and 117, s1 + 1 at line 134
StartS == IF caller = "L134" THEN s1 + 1 ELSE s1

\* one step of a running FindConformingBaseStep(StartS)
C16_Step ==
    /\ (pc = "base") =>
           /\ s >= StartS
           \* a rejected value is followed by the next integer
           /\ (pc' = "base") => (~Query(s) /\ s' = s + 1)
           \* the value returned is accepted and nothing below it is
           /\ (pc' # "base") =>
                  (Query(s) /\ sNext' = s /\ NoneAccepted(StartS, s - 1))
    \* a call starts at its argument
    /\ (pc # "base" /\ pc' = "base") => (s' = StartS')

\* C16: FindConformingBaseStep(startS) queries startS, startS + 1, ... in
\* that order, one query per value and none skipped, and returns the least
\* s >= startS that the oracle accepts, querying nothing above it.
C16_BaseStepReturnsLeast == [][C16_Step]_vars

\* The linear search is about to return a value above its starting point.
C16_Witness ==
    /\ pc = "base"
    /\ s > StartS
    /\ Query(s)

\* C17: the narrowing step of iteration i = 1 is applied to
\* M_1 = {(2B, 3B - 1)} with the least accepted multiplier s >= ceil(n/(3B)),
\* which is the value the search before the loop found.
C17_Bootstrap ==
    /\ []((pc = "narrow" /\ i = 1) =>
              /\ Mi = M1
              /\ sNext >= CeilDiv(modN, 3 * B)
              /\ Query(sNext)
              /\ NoneAccepted(CeilDiv(modN, 3 * B), sNext - 1)
              /\ sNext = si)
    /\ [][(pc = "narrow" /\ i = 1) =>
              (Mi' = ComputeNextIntervals(M1, sNext, modN))]_vars

\* The first narrowing step is about to run with a multiplier above the
\* floor of the search.
C17_Witness ==
    /\ pc = "narrow"
    /\ i = 1
    /\ Mi = M1
    /\ sNext > CeilDiv(modN, 3 * B)

\* C18: every run of Attack ends, returning a converged value or reporting
\* a failure to its caller.
C18_EveryRunEnds == <>(pc \in {"done", "NonConvergence", "OracleExhausted"})

\* C19: Mi is never empty, and the linear search of the branch
\* len(Mi) != 1 runs only with at least two intervals.
C19_MiNeverEmpty ==
    /\ Len(Mi) >= 1
    /\ (pc = "base" /\ caller = "L134") => (Len(Mi) >= 2)

Disjoint(ab, cd) == ab[2] < cd[1] \/ cd[2] < ab[1]

\* C20: no integer belongs to two different intervals of Mi.
C20_PairwiseDisjoint ==
    \A j, k \in 1..Len(Mi) : (j # k) => Disjoint(Mi[j], Mi[k])

\* A narrowing step has left several intervals and the next one is about to
\* refine them.
C20_Witness ==
    /\ pc = "narrow"
    /\ i > 1
    /\ Len(Mi) >= 2

====
